---- MODULE Spec2Model ----
(***************************************************************************)
(* Model of ml_app/app/models/time_series.py: create_all_time_series (the  *)
(* orchestrator) and create_single_time_series (the dask-delayed worker).  *)
(*                                                                         *)
(* A DataFrame is a record [columns, rows]: a set of column names and a    *)
(* sequence of rows, each row a function from column name to cell.  The    *)
(* pandas, dask and Prophet calls the source makes are modelled by what    *)
(* they do to such frames.  The numbers Prophet fits (trend, yhat) are an  *)
(* uninterpreted function of the history the model was fitted on and of    *)
(* the date predicted.                                                     *)
(***************************************************************************)
EXTENDS Integers, Sequences, FiniteSets, TLC

\* ------------------------------------------------------------- bounds
MaxRows == 3

\* A missing cell (None / NaN).  Ids, dates and targets are naturals.
NaN == -1

\* The arguments uid, time_index and target: the caller's column names.
uid == "item"
time_index == "month"
target == "sales"

UidValues == {1, 2}
DsValues == {1, 2}
YValues == {4}
\* ts_drop_cols: a column predict returns, or one it does not return.
DropChoices == {{"trend"}, {"nosuch"}}
\* How the model behaves on an entity: fit throws, predict throws, neither.
FaultKinds == {"none", "fit", "predict"}

VARIABLES df, ts_drop_cols, fault, pc, df_ts, df_ts_gp, ts_output, tasks,
          records_list, df_ts_all

vars == <<df, ts_drop_cols, fault, pc, df_ts, df_ts_gp, ts_output, tasks,
          records_list, df_ts_all>>

\* ------------------------------------------------------------- helpers
Range(s) == {s[i] : i \in DOMAIN s}

Max(S) == CHOOSE m \in S : \A x \in S : x <= m

Min(S) == CHOOSE m \in S : \A x \in S : m <= x

RECURSIVE SortedSeq(_)
SortedSeq(S) == IF S = {} THEN <<>>
                ELSE <<Min(S)>> \o SortedSeq(S \ {Min(S)})

RECURSIVE Concat(_)
Concat(ss) == IF ss = <<>> THEN <<>> ELSE Head(ss) \o Concat(Tail(ss))

Column(frame, c) == [i \in DOMAIN frame.rows |-> frame.rows[i][c]]

EmptyFrame == [columns |-> {}, rows |-> <<>>]

\* ------------------------------------------------------------- pandas
\* df[[a, b, c]]
Select(frame, cols) ==
    [columns |-> cols,
     rows |-> [i \in DOMAIN frame.rows |-> [c \in cols |-> frame.rows[i][c]]]]

\* The two dicts handed to DataFrame.rename.
ToCanonical == (time_index :> "ds") @@ (target :> "y")

FromCanonical == ("ds" :> time_index) @@ ("y" :> target)

\* The name a column gets: names the dict does not list stay.
Renamed(c, m) == IF c \in DOMAIN m THEN m[c] ELSE c

RenameRow(r, m) ==
    [c \in {Renamed(k, m) : k \in DOMAIN r} |->
        r[CHOOSE k \in DOMAIN r : Renamed(k, m) = c]]

\* DataFrame.rename(mapping, axis=1)
Rename(frame, m) ==
    [columns |-> {Renamed(c, m) : c \in frame.columns},
     rows |-> [i \in DOMAIN frame.rows |-> RenameRow(frame.rows[i], m)]]

\* A fill whose result is thrown away.
FillnaDiscarded(frame, c, v) == frame

\* df[c] = df[c].fillna(v)
Fillna(frame, c, v) ==
    [frame EXCEPT !.rows = [i \in DOMAIN frame.rows |->
        [frame.rows[i] EXCEPT ![c] = IF @ = NaN THEN v ELSE @]]]

\* df[c] = v (a scalar broadcast to every row)
Assign(frame, c, v) ==
    [columns |-> frame.columns \cup {c},
     rows |-> [i \in DOMAIN frame.rows |->
        [k \in DOMAIN frame.rows[i] \cup {c} |->
            IF k = c THEN v ELSE frame.rows[i][k]]]]

\* A grouping that loses its last key.
GroupKeysSkipLast(frame, by) ==
    LET keys == SortedSeq(Range(Column(frame, by)) \ {NaN})
    IN SubSeq(keys, 1, Len(keys) - 1)

\* DataFrame.groupby(by).groups: the keys in sorted order; rows whose key is
\* missing belong to no group (groupby's dropna).
GroupKeys(frame, by) == SortedSeq(Range(Column(frame, by)) \ {NaN})

GroupBy(frame, by) == [obj |-> frame, by |-> by, groups |-> GroupKeys(frame, by)]

\* DataFrameGroupBy.get_group(g): the rows of the group, in the frame's order.
GetGroup(gp, g) ==
    [columns |-> gp.obj.columns,
     rows |-> SelectSeq(gp.obj.rows, LAMBDA r : r[gp.by] = g)]

\* DataFrame.drop(cols, axis=1) raises KeyError on a name that is no column.
DropRaises(frame, cols) == ~(cols \subseteq frame.columns)

Drop(frame, cols) == Select(frame, frame.columns \ cols)

\* DataFrame.to_dict(orient='records')
ToRecords(frame) == frame.rows

\* pd.DataFrame(list of dicts): the columns are the keys of the records, a
\* record lacking a key gets a missing cell there.
DataFrame(records) ==
    LET cols == UNION {DOMAIN records[i] : i \in DOMAIN records}
    IN [columns |-> cols,
        rows |-> [i \in DOMAIN records |->
            [c \in cols |-> IF c \in DOMAIN records[i] THEN records[i][c] ELSE NaN]]]

\* ------------------------------------------------------------- Prophet
\* The cap taken over the whole grouped frame instead of the task's own.
CapWholeFrame(frame) == Max(Range(Column(df_ts_gp.obj, "y"))) * 2

\* df_ts['y'].max() * 2
Cap(frame) == Max(Range(Column(frame, "y"))) * 2

Floor == 1

\* Prophet.fit raises ValueError on fewer than two rows with a target, and
\* whenever the fit itself fails (the fault the run was started with).
FitRaises(frame, f) == Len(frame.rows) < 2 \/ f = "fit"

\* Prophet.fit: the model keeps the history and its distinct dates, sorted.
Fit(frame) ==
    [history |-> frame,
     history_dates |-> SortedSeq(Range(Column(frame, "ds")))]

\* A future frame that stops at the last date of the history.
MakeFutureDataframeHistoryOnly(model, periods) ==
    [columns |-> {"ds"},
     rows |-> [i \in DOMAIN model.history_dates |->
                 [c \in {"ds"} |-> model.history_dates[i]]]]

\* Prophet.make_future_dataframe(periods): the history's dates followed by
\* `periods` dates after the last one.
MakeFutureDataframe(model, periods) ==
    LET last == model.history_dates[Len(model.history_dates)]
        dates == model.history_dates \o [i \in 1..periods |-> last + i]
    IN [columns |-> {"ds"}, rows |-> [i \in DOMAIN dates |-> [c \in {"ds"} |-> dates[i]]]]

\* What the fitted model says about date t: a function of the history only.
Forecast(model, what, t) == <<what, Column(model.history, "y"), t>>

\* Prophet.predict: one row per row of the frame given, with the date, the
\* cap and floor given, and the model's outputs.
Predict(model, future) ==
    [columns |-> {"ds", "cap", "floor", "trend", "yhat"},
     rows |-> [i \in DOMAIN future.rows |->
        [c \in {"ds", "cap", "floor", "trend", "yhat"} |->
            IF c \in {"ds", "cap", "floor"} THEN future.rows[i][c]
            ELSE Forecast(model, c, future.rows[i]["ds"])]]]

\* ------------------------------------------------------------- inputs
Row(u, t, v) == [c \in {uid, time_index, target, "price"} |->
                    IF c = uid THEN u ELSE IF c = time_index THEN t
                    ELSE IF c = target THEN v ELSE 0]

\* The rows a dataset is made of: every id, date and (possibly missing)
\* target, and a row whose id is missing.
RowDomain == {Row(u, t, v) : u \in UidValues, t \in DsValues, v \in YValues \cup {NaN}}
             \cup {Row(NaN, 1, 4)}

RowSeqs(n) == UNION {[1..k -> RowDomain] : k \in 0..n}

AllColumns == {uid, time_index, target, "price"}

\* Well-formed datasets of up to MaxRows rows, and datasets lacking one of
\* the three columns.
Datasets ==
    {[columns |-> AllColumns, rows |-> rs] : rs \in RowSeqs(MaxRows)}
    \cup {Select([columns |-> AllColumns, rows |-> rs], AllColumns \ {c}) :
            rs \in RowSeqs(1), c \in {uid, time_index, target}}

\* The datasets the runs under fairness start from (with a column to drop
\* that predict returns): every id and date with a target present, and the
\* datasets lacking a column.
PlainRowSeqs(n) ==
    UNION {[1..k -> {Row(u, t, 4) : u \in UidValues, t \in DsValues}] : k \in 0..n}

PlainDatasets ==
    {[columns |-> AllColumns, rows |-> rs] : rs \in PlainRowSeqs(MaxRows)}
    \cup {Select([columns |-> AllColumns, rows |-> rs], AllColumns \ {c}) :
            rs \in PlainRowSeqs(1), c \in {uid, time_index, target}}

RowsOf(frame, by, g) == SelectSeq(frame.rows, LAMBDA r : r[by] = g)

\* ------------------------------------------------------------- state
NoModel == [history |-> EmptyFrame, history_dates |-> <<>>]

Delayed(frame) ==
    [st |-> "delayed", df_ts |-> frame, uid_value |-> NaN, model |-> NoModel,
     df_future |-> EmptyFrame, fits |-> 0, ret |-> <<>>]

Terminal(t) == t.st \in {"succeeded", "failed"}

InitOn(datasets, drops) ==
    /\ df \in datasets
    /\ ts_drop_cols \in drops
    /\ fault \in [UidValues -> FaultKinds]
    \* the fault of an entity that always fails to fit, or is absent, is moot
    /\ \A u \in UidValues :
         (uid \notin df.columns \/ Len(RowsOf(df, uid, u)) < 2) => fault[u] = "none"
    /\ pc = "start"
    /\ df_ts = EmptyFrame
    /\ df_ts_gp = GroupBy(EmptyFrame, uid)
    /\ ts_output = <<>>
    /\ tasks = <<>>
    /\ records_list = <<>>
    /\ df_ts_all = EmptyFrame

Init == InitOn(Datasets, DropChoices)

FairInit == InitOn(PlainDatasets, {{"trend"}})

\* ------------------------------------------------------------- orchestrator
\* lines 47-53: df[[uid, time_index, target]].rename(...)
Project ==
    /\ pc = "start"
    /\ {uid, time_index, target} \subseteq df.columns
    /\ df_ts' = Rename(Select(df, {uid, time_index, target}), ToCanonical)
    /\ pc' = "fillna"
    /\ UNCHANGED <<df, ts_drop_cols, fault, df_ts_gp, ts_output, tasks,
                   records_list, df_ts_all>>

\* A selection that tolerates a missing column and returns an empty table.
ProjectTolerates ==
    /\ pc = "start"
    /\ ~({uid, time_index, target} \subseteq df.columns)
    /\ pc' = "done"
    /\ UNCHANGED <<df, ts_drop_cols, fault, df_ts, df_ts_gp, ts_output, tasks,
                   records_list, df_ts_all>>

\* lines 47-48: the selection raises KeyError, which nothing catches.
ProjectRaises ==
    /\ pc = "start"
    /\ ~({uid, time_index, target} \subseteq df.columns)
    /\ pc' = "raised"
    /\ UNCHANGED <<df, ts_drop_cols, fault, df_ts, df_ts_gp, ts_output, tasks,
                   records_list, df_ts_all>>

\* line 55
FillTarget ==
    /\ pc = "fillna"
    /\ df_ts' = Fillna(df_ts, "y", 0)
    /\ pc' = "groupby"
    /\ UNCHANGED <<df, ts_drop_cols, fault, df_ts_gp, ts_output, tasks,
                   records_list, df_ts_all>>

\* lines 58-61
Group ==
    /\ pc = "groupby"
    /\ df_ts_gp' = GroupBy(df_ts, uid)
    /\ ts_output' = <<>>
    /\ pc' = "loop"
    /\ UNCHANGED <<df, ts_drop_cols, fault, df_ts, tasks, records_list, df_ts_all>>

\* lines 64-68, one iteration: the next group's frame is bound to a new
\* delayed call; nothing of the call runs yet.
Submit ==
    /\ pc = "loop"
    /\ Len(ts_output) < Len(df_ts_gp.groups)
    /\ LET group == df_ts_gp.groups[Len(ts_output) + 1]
       IN /\ df_ts' = GetGroup(df_ts_gp, group)
          /\ tasks' = Append(tasks, Delayed(df_ts'))
          /\ ts_output' = Append(ts_output, Len(tasks) + 1)
    /\ UNCHANGED <<df, ts_drop_cols, fault, pc, df_ts_gp, records_list, df_ts_all>>

\* line 71, entry: the loop is over and dask starts the delayed calls.
ComputeStart ==
    /\ pc = "loop"
    /\ Len(ts_output) = Len(df_ts_gp.groups)
    /\ pc' = "compute"
    /\ UNCHANGED <<df, ts_drop_cols, fault, df_ts, df_ts_gp, ts_output, tasks,
                   records_list, df_ts_all>>

\* A compute that returns as soon as one delayed call has returned.
AnyComputed == tasks = <<>> \/ \E k \in DOMAIN tasks : Terminal(tasks[k])

\* compute returns once every delayed call has returned.
AllComputed == \A k \in DOMAIN tasks : Terminal(tasks[k])

\* line 71, return: the results, in the order of the list computed.
ComputeReturn ==
    /\ pc = "compute"
    /\ AllComputed
    /\ ts_output' = [i \in DOMAIN ts_output |-> tasks[ts_output[i]].ret]
    /\ pc' = "flatten"
    /\ UNCHANGED <<df, ts_drop_cols, fault, df_ts, df_ts_gp, tasks,
                   records_list, df_ts_all>>

\* lines 74-79
Flatten ==
    /\ pc = "flatten"
    /\ records_list' = Concat(ts_output)
    /\ pc' = "frame"
    /\ UNCHANGED <<df, ts_drop_cols, fault, df_ts, df_ts_gp, ts_output, tasks,
                   df_ts_all>>

\* lines 82-90
Return ==
    /\ pc = "frame"
    /\ df_ts_all' = Rename(DataFrame(records_list), FromCanonical)
    /\ pc' = "done"
    /\ UNCHANGED <<df, ts_drop_cols, fault, df_ts, df_ts_gp, ts_output, tasks,
                   records_list>>

\* ------------------------------------------------------------- worker
\* The frame read through the caller's name df_ts when the call runs.
TaskFrameLateBound(k) == df_ts

\* The frame a delayed call works on: the one bound to it at line 67.
TaskFrame(k) == tasks[k].df_ts

\* lines 124-149: the id, a new model, cap and floor on the task's frame.
Configured(t) ==
    [t EXCEPT !.uid_value = Column(t.df_ts, uid)[1],
              !.model = NoModel,
              !.df_ts = Assign(Assign(@, "cap", Cap(@)), "floor", Floor)]

TaskSetup(k) ==
    /\ pc = "compute"
    /\ tasks[k].st = "delayed"
    /\ tasks' = [tasks EXCEPT ![k] = [Configured(@) EXCEPT !.st = "configured"]]
    /\ UNCHANGED <<df, ts_drop_cols, fault, pc, df_ts, df_ts_gp, ts_output,
                   records_list, df_ts_all>>

\* line 153
TaskFit(k) ==
    /\ pc = "compute"
    /\ tasks[k].st = "configured"
    /\ ~FitRaises(TaskFrame(k), fault[tasks[k].uid_value])
    /\ tasks' = [tasks EXCEPT ![k] =
         [@ EXCEPT !.st = "fitted", !.model = Fit(TaskFrame(k)), !.fits = @ + 1]]
    /\ UNCHANGED <<df, ts_drop_cols, fault, pc, df_ts, df_ts_gp, ts_output,
                   records_list, df_ts_all>>

\* The except clause left out: the exception leaves the call and compute.
TaskFitPropagates(k) ==
    /\ pc = "compute"
    /\ tasks[k].st = "configured"
    /\ FitRaises(TaskFrame(k), fault[tasks[k].uid_value])
    /\ pc' = "raised"
    /\ UNCHANGED <<df, ts_drop_cols, fault, df_ts, df_ts_gp, ts_output, tasks,
                   records_list, df_ts_all>>

\* lines 153, 171-172: fit raises, the bare except returns [].
TaskFitRaises(k) ==
    /\ pc = "compute"
    /\ tasks[k].st = "configured"
    /\ FitRaises(TaskFrame(k), fault[tasks[k].uid_value])
    /\ tasks' = [tasks EXCEPT ![k] =
         [@ EXCEPT !.st = "failed", !.fits = @ + 1, !.ret = <<>>]]
    /\ UNCHANGED <<df, ts_drop_cols, fault, pc, df_ts, df_ts_gp, ts_output,
                   records_list, df_ts_all>>

\* lines 156-158
FutureFrame(t) ==
    Assign(Assign(MakeFutureDataframe(t.model, 1), "cap", Cap(t.df_ts)), "floor", Floor)

\* lines 161-162
Predictions(t) == Assign(Predict(t.model, FutureFrame(t)), uid, t.uid_value)

PredictRaises(t, f, cols) == f = "predict" \/ DropRaises(Predictions(t), cols)

\* lines 156-169
TaskPredict(k) ==
    /\ pc = "compute"
    /\ tasks[k].st = "fitted"
    /\ ~PredictRaises(tasks[k], fault[tasks[k].uid_value], ts_drop_cols)
    /\ tasks' = [tasks EXCEPT ![k] =
         [@ EXCEPT !.st = "succeeded",
                   !.df_future = FutureFrame(tasks[k]),
                   !.ret = ToRecords(Drop(Predictions(tasks[k]), ts_drop_cols))]]
    /\ UNCHANGED <<df, ts_drop_cols, fault, pc, df_ts, df_ts_gp, ts_output,
                   records_list, df_ts_all>>

\* lines 156-165, 171-172: predict or drop raises, the bare except returns [].
TaskPredictRaises(k) ==
    /\ pc = "compute"
    /\ tasks[k].st = "fitted"
    /\ PredictRaises(tasks[k], fault[tasks[k].uid_value], ts_drop_cols)
    /\ tasks' = [tasks EXCEPT ![k] = [@ EXCEPT !.st = "failed", !.ret = <<>>]]
    /\ UNCHANGED <<df, ts_drop_cols, fault, pc, df_ts, df_ts_gp, ts_output,
                   records_list, df_ts_all>>

\* create_single_time_series run start to end on its own: what one delayed
\* call returns for the frame, the model's behaviour and the columns to drop.
CreateSingleTimeSeries(frame, f, cols) ==
    LET t1 == Configured(Delayed(frame))
        t2 == [t1 EXCEPT !.model = Fit(t1.df_ts)]
    IN IF FitRaises(t1.df_ts, f) THEN <<>>
       ELSE IF PredictRaises(t2, f, cols) THEN <<>>
       ELSE ToRecords(Drop(Predictions(t2), cols))

\* create_all_time_series with the delayed calls run one after the other in
\* the order they were listed.
CreateAllTimeSeries(d, cols, flt) ==
    LET gp == GroupBy(Fillna(Rename(Select(d, {uid, time_index, target}), ToCanonical),
                             "y", 0), uid)
        out == [i \in DOMAIN gp.groups |->
                  CreateSingleTimeSeries(GetGroup(gp, gp.groups[i]), flt[gp.groups[i]], cols)]
    IN Rename(DataFrame(Concat(out)), FromCanonical)

Worker(k) ==
    \/ TaskSetup(k)
    \/ TaskFit(k)
    \/ TaskFitRaises(k)
    \/ TaskPredict(k)
    \/ TaskPredictRaises(k)

Orchestrator ==
    \/ Project
    \/ ProjectRaises
    \/ FillTarget
    \/ Group
    \/ Submit
    \/ ComputeStart
    \/ ComputeReturn
    \/ Flatten
    \/ Return

Next ==
    \/ Orchestrator
    \/ \E k \in DOMAIN tasks : Worker(k)

Spec == Init /\ [][Next]_vars

\* dask runs every delayed call it was handed, and the caller's thread goes on.
FairSpec ==
    /\ FairInit
    /\ [][Next]_vars
    /\ WF_vars(Orchestrator)
    /\ \A k \in 1..Cardinality(UidValues) : WF_vars(k \in DOMAIN tasks /\ Worker(k))

\* ------------------------------------------------------------- properties
HasColumns == {uid, time_index, target} \subseteq df.columns

\* The entity the k-th delayed call was made for.
GroupOf(k) == df_ts_gp.groups[k]

\* The rows of the input that carry entity id g, in input order.
OwnRows(g) == SelectSeq(df.rows, LAMBDA r : r[uid] = g)

\* The rows of the returned table that carry entity id g.
Contribution(g) == SelectSeq(df_ts_all.rows, LAMBDA r : uid \in DOMAIN r /\ r[uid] = g)

\* The records of one call as they appear in the returned table.
AsReturned(records) == [i \in DOMAIN records |-> RenameRow(records[i], FromCanonical)]

Returned == pc = "done"

\* C1: a delayed call whose fit or predict raises returns an empty list, the
\* run raises nothing, the entity has no row in the returned table, and every
\* other entity has exactly the rows its call returns when nothing raises.
C1_FailureContained ==
    /\ HasColumns => pc # "raised"
    /\ \A k \in DOMAIN tasks : tasks[k].st = "failed" => tasks[k].ret = <<>>
    /\ Returned => \A k \in DOMAIN tasks :
         IF tasks[k].st = "failed"
         THEN Contribution(GroupOf(k)) = <<>>
         ELSE Contribution(GroupOf(k)) =
                AsReturned(CreateSingleTimeSeries(GetGroup(df_ts_gp, GroupOf(k)),
                                                  "none", ts_drop_cols))

C1_Witness ==
    /\ Returned
    /\ \E j, k \in DOMAIN tasks :
         /\ tasks[j].st = "failed"
         /\ tasks[k].st = "succeeded"
         /\ Contribution(GroupOf(k)) # <<>>

\* The ids a partition was built and a call submitted for.
SubmittedIds == {Column(tasks[k].df_ts, uid)[1] : k \in DOMAIN tasks}

LoopDone == pc \in {"compute", "flatten", "frame", "done"}

\* C2, as claimed: the submitted ids are the distinct values of the input's
\* entity column, a missing id among them.
C2_AllIdsSubmitted ==
    LoopDone => SubmittedIds = Range(Column(df, uid))

\* C2, amended: the submitted ids are the distinct values of the input's entity
\* column that are not missing, each call holding exactly its entity's rows.
C2_PresentIdsSubmitted ==
    LoopDone =>
        /\ SubmittedIds = Range(Column(df, uid)) \ {NaN}
        /\ Len(tasks) = Cardinality(SubmittedIds)
        /\ \A k \in DOMAIN tasks :
             Len(tasks[k].df_ts.rows) = Len(OwnRows(Column(tasks[k].df_ts, uid)[1]))

C2_Witness ==
    /\ LoopDone
    /\ Len(tasks) = 2
    /\ NaN \in Range(Column(df, uid))

DatesOf(g) == {OwnRows(g)[i][time_index] : i \in DOMAIN OwnRows(g)}

C4_MalformedNeverReturns ==
    (~HasColumns \/ df.rows = <<>>) => pc \in {"start", "raised"}

\* C4, amended: a call on a dataset that lacks a required column raises and
\* returns no table; a call on a dataset with the columns raises nothing, and
\* on one with no rows it returns a table with no rows and no columns.
C4_MissingColumnRaises ==
    /\ ~HasColumns => pc \in {"start", "raised"} /\ df_ts_all = EmptyFrame
    /\ HasColumns => pc # "raised"
    /\ (HasColumns /\ df.rows = <<>> /\ Returned) => df_ts_all = EmptyFrame

C4_Witness == pc = "raised" /\ ~HasColumns

\* C5: the returned table has the caller's entity, time and target columns
\* and none of the columns listed in ts_drop_cols.
C5_OutputSchema ==
    Returned =>
        /\ {uid, time_index, target} \subseteq df_ts_all.columns
        /\ df_ts_all.columns \cap ts_drop_cols = {}
        /\ df_ts_all.columns \cap {"ds", "y"} = {}

\* The target column a call must see for entity g: 0 where the input has no
\* value, the input's value elsewhere.
FilledTargets(g) ==
    [i \in DOMAIN OwnRows(g) |->
        IF OwnRows(g)[i][target] = NaN THEN 0 ELSE OwnRows(g)[i][target]]

\* C6: the frame of every delayed call has no missing target; its targets
\* are those of the entity's input rows, in order, with 0 for a missing one.
C6_MissingTargetIsZero ==
    \A k \in DOMAIN tasks :
        /\ NaN \notin Range(Column(tasks[k].df_ts, "y"))
        /\ Column(tasks[k].df_ts, "y") = FilledTargets(Column(tasks[k].df_ts, uid)[1])

C6_Witness ==
    \E k \in DOMAIN tasks :
        /\ Column(tasks[k].df_ts, "y") = <<0, 4>>
        /\ OwnRows(Column(tasks[k].df_ts, uid)[1])[1][target] = NaN

HasCapFloor(frame, cap, floor) ==
    /\ {"cap", "floor"} \subseteq frame.columns
    /\ \A i \in DOMAIN frame.rows :
         frame.rows[i]["cap"] = cap /\ frame.rows[i]["floor"] = floor

\* C7: the history a model was fitted on and the future frame it predicts for
\* both carry, on every row, a cap of twice the largest target of the entity's
\* own series and a floor of 1.
C7_CapFloor ==
    \A k \in DOMAIN tasks :
        LET own == 2 * Max(Range(FilledTargets(GroupOf(k))))
        IN /\ tasks[k].st \in {"fitted", "succeeded"} =>
                /\ HasCapFloor(tasks[k].df_ts, own, 1)
                /\ HasCapFloor(tasks[k].model.history, own, 1)
           /\ tasks[k].st = "succeeded" =>
                /\ HasCapFloor(tasks[k].df_future, own, 1)
                /\ Len(tasks[k].df_future.rows) = Len(tasks[k].model.history_dates) + 1

C7_Witness ==
    \E j, k \in DOMAIN tasks :
        /\ tasks[k].st = "succeeded"
        /\ Max(Range(FilledTargets(GroupOf(j)))) > Max(Range(FilledTargets(GroupOf(k))))

RECURSIVE Sum(_)
Sum(s) == IF s = <<>> THEN 0 ELSE Head(s) + Sum(Tail(s))

Tail6(s) == SubSeq(s, IF Len(s) > 6 THEN Len(s) - 5 ELSE 1, Len(s))

\* The rule of the docstring (lines 15-16).
Eligible(y) == Sum(Tail6(y)) > 6 /\ y[Len(y)] > 0

\* C8: a call is submitted only for an entity whose last 6 targets sum to more
\* than 6 and whose latest target is more than 0.
C8_OnlyEligibleSubmitted ==
    \A k \in DOMAIN tasks : Eligible(FilledTargets(GroupOf(k)))

\* C9: on a dataset with the required columns every submitted call ends, once
\* and for good, succeeded or failed after at most one fit; results are
\* flattened only when every call has ended; and the run returns a table.
C9_SingleBarrier ==
    /\ [](pc \in {"flatten", "frame", "done"} => \A k \in DOMAIN tasks : Terminal(tasks[k]))
    /\ [](\A k \in DOMAIN tasks :
            /\ tasks[k].fits <= 1
            /\ Terminal(tasks[k]) => tasks[k].fits = 1
            /\ tasks[k].st = "failed" => tasks[k].ret = <<>>)
    /\ [][\A k \in DOMAIN tasks : Terminal(tasks[k]) => tasks'[k] = tasks[k]]_vars
    /\ [](HasColumns => <>(Returned /\ Len(tasks) = Len(df_ts_gp.groups)))

C9_Witness ==
    /\ Returned
    /\ \E j, k \in DOMAIN tasks : tasks[j].st = "failed" /\ tasks[k].st = "succeeded"

\* C10: the returned table is the one table the dataset, the columns to drop
\* and the model's behaviour determine, whatever order the calls ran in.
C10_OrderIndependent ==
    Returned => df_ts_all = CreateAllTimeSeries(df, ts_drop_cols, fault)

C10_Witness ==
    /\ Returned
    /\ Len(tasks) = 2
    /\ df_ts_all.rows # <<>>

====
